---------------------------- MODULE Spec2Model ----------------------------
(***************************************************************************)
(* Price relay: FeedClient (PerpSdk/src/feed/feed_client.ts), the          *)
(* PriceFeedService multiplexer (src/services/feedClient.ts) and the       *)
(* WebSocketHandler sessions (src/websocket/wsHandler.ts).                 *)
(*                                                                         *)
(* The event loop is single threaded: every action below is one macrotask  *)
(* (an API call, a socket event, a timer) run to completion, including the *)
(* microtasks it resolves.                                                 *)
(***************************************************************************)
EXTENDS Integers, Sequences, FiniteSets, Bags, TLC

\* ------------------------------------------------------------------ bounds
\* sockets that close (failed handshakes and drops) in one run of the service;
\* every close under PriceFeedService creates one more FeedClient
MaxCloses == 1
\* dispatcher closures of one pair that are referenced at the same time
MaxGen == 2
\* connections, open or scheduled, that SDK code has at the same time
MaxSock == 2
\* downstream client sessions accepted in one run
MaxSess == 2
\* listeners in the array of one identifier
MaxListeners == 2

\* sockets that close in one run of the service while the upstream stays
\* unreachable and nobody calls the service
MaxOutage == 6

\* sockets that close in one run of the server while clients keep subscribing
MaxServerCloses == 2

\* hexadecimal digits of an identifier string
MaxIdLen == 2

\* get_price requests whose HTTP request is in flight at the same time
MaxFetch == 1

\* ------------------------------------------------------- program constants
maxReconnectAttempts == 5
\* FeedClient.reconnectDelay, ms
reconnectDelay == 1000
\* the delay of setTimeout(() => this.initialize(), 5000), ms
initializeDelay == 5000

\* ---------------------------------------------------------------- strings
\* Identifier strings are sequences of characters.
LowerChar(c) ==
  CASE c = "X" -> "x"
    [] c = "A" -> "a"
    [] c = "E" -> "e"
    [] c = "F" -> "f"
    [] OTHER -> c

toLowerCase(s) == [i \in 1..Len(s) |-> LowerChar(s[i])]

startsWith0x(s) == Len(s) >= 2 /\ s[1] = "0" /\ s[2] = "x"

\* a normalization that removes the marker before it lower-cases
normalizeFeedId_StripFirst(feedId) ==
  LET stripped == IF startsWith0x(feedId) THEN SubSeq(feedId, 3, Len(feedId)) ELSE feedId
  IN toLowerCase(stripped)

normalizeFeedId(feedId) ==
  LET normalized == toLowerCase(feedId)
  IN IF startsWith0x(normalized) THEN SubSeq(normalized, 3, Len(normalized))
     ELSE normalized

\* Identifier strings: hexadecimal digits in either case, with or without the
\* leading marker in either case.
HexChars == {"0", "6", "e", "E", "f", "F"}
Markers == {<< >>, <<"0", "x">>, <<"0", "X">>}
IdStrings ==
  {m \o b : m \in Markers,
            b \in UNION {[1..n -> HexChars] : n \in 1..MaxIdLen}}

\* ------------------------------------------------------------ the registry
\* pairService: the pairs loaded from the contracts and their raw feed ids.
Pairs == {"BTC/USD", "ETH/USD"}

getFeedId(pair) ==
  CASE pair = "BTC/USD" -> <<"0", "x", "E", "6">>
    [] pair = "ETH/USD" -> <<"0", "X", "f", "F">>

Ids == {normalizeFeedId(getFeedId(p)) : p \in Pairs}

\* ------------------------------------------------------------- identities
Max(S) == CHOOSE x \in S : \A y \in S : x >= y
FCs == 1..(Max({MaxCloses, MaxOutage}) + 1)
Socks == 1..Max({MaxSock, MaxCloses + 1, MaxOutage + 1})
Gens == 1..MaxGen
Sessions == 1..MaxSess

\* A listener of a FeedClient: a PriceFeedService dispatcher closure
\* (pythCallback, one per creation) or a callback of SDK user code.
Dispatcher(pair, gen) == [kind |-> "disp", pair |-> pair, n |-> gen]
Direct(n) == [kind |-> "direct", pair |-> "-", n |-> n]
DirectListeners == {Direct(1), Direct(2)}

\* A consumer of PriceFeedService: an in-process callback, or the closure
\* that handleSubscribe creates for (session, pair).
InProc(n) == [sess |-> 0, tag |-> n]
SessCb(s, pair) == [sess |-> s, tag |-> pair]
InProcCbs == {InProc("cbA"), InProc("cbB")}

\* ------------------------------------------------------------------- maps
MapSet(m, k, v) == [x \in (DOMAIN m) \cup {k} |-> IF x = k THEN v ELSE m[x]]
MapDel(m, k) == [x \in (DOMAIN m) \ {k} |-> m[x]]
EmptyMap == << >>

\* Array.prototype.indexOf: first index of x, 0 when absent
indexOf(arr, x) ==
  IF \E i \in 1..Len(arr) : arr[i] = x
  THEN CHOOSE i \in 1..Len(arr) : arr[i] = x /\ \A j \in 1..(i - 1) : arr[j] # x
  ELSE 0

\* Array.prototype.splice(idx, 1)
splice1(arr, idx) == SubSeq(arr, 1, idx - 1) \o SubSeq(arr, idx + 1, Len(arr))

\* Set.prototype.add / delete on an insertion-ordered set
\* an array push in place of Set.add
setAdd_Push(s, x) == Append(s, x)
setAdd(s, x) == IF indexOf(s, x) > 0 THEN s ELSE Append(s, x)
setDelete(s, x) == IF indexOf(s, x) > 0 THEN splice1(s, indexOf(s, x)) ELSE s
Elems(s) == {s[i] : i \in 1..Len(s)}

VARIABLES
  driver,         \* who uses the FeedClient: "sdk" user code, the "service" API, the "server",
                  \* the "unattended" service, the server in an upstream "outage"
  fcLive,         \* FeedClient instances that exist
  fcWs,           \* FeedClient.ws: a socket, 0 when undefined, -1 a socket that has closed
  fcCallbacks,    \* FeedClient.callbacks: id -> array of listeners
  fcAttempts,     \* FeedClient.reconnectAttempts
  timers,         \* pending setTimeout timers, one entry per close event, oldest first
  socks,          \* upstream sockets: owner, readyState (FREE: none or closed), ids the upstream has subscribed
  pfsClient,      \* PriceFeedService.feedClient, 0 when null
  pfsConnected,   \* PriceFeedService.connected
  subscriptions,  \* PriceFeedService.subscriptions: pair -> Set of consumers
  pfsCallbacks,   \* PriceFeedService.callbacks: pair -> dispatcher
  closes,         \* sockets that have closed under the service
  hadListeners,   \* per FeedClient: the ids with listeners when its open socket closed, until the step after a socket opens
  stale,          \* the unsubscribe handle <<pair, consumer>> invoked last, still held by its caller
  sess,           \* session state: "new", "open", "closed"
  subscribedPairs,      \* ClientState.subscribedPairs per session
  unsubscribeFunctions, \* WebSocketHandler.unsubscribeFunctions: keys <<session, pair>>
  tick,           \* the tick the upstream is publishing: id and sockets still to receive it
  got,            \* bag of the consumers invoked for that tick so far
  sent,           \* upstream messages sent by the last step
  lcalls,         \* FeedClient listeners invoked by the last step, in order, and what each did
  ccalls,         \* PriceFeedService consumers invoked by the last step, in order, and what each did
  out,            \* messages sent to downstream clients by the last step
  req,            \* the client message <<session, pair>> that the last step handled
  fetches,        \* get_price requests <<session, pair>> awaiting their HTTP response
  recv,           \* the upstream message that the last step handled, and its socket
  nf,             \* an identifier string and the results of normalizing it again and again
  running,        \* the process has not exited
  op              \* the last step

vars == <<driver, fcLive, fcWs, fcCallbacks, fcAttempts, timers, socks,
          pfsClient, pfsConnected, subscriptions, pfsCallbacks, closes,
          hadListeners, stale, sess, subscribedPairs, unsubscribeFunctions,
          tick, got, sent, lcalls, ccalls, out, req, fetches, recv, nf,
          running, op>>

NoOne == [sess |-> 0, tag |-> "-"]
NoHandle == <<"-", NoOne>>
FreeSock == [owner |-> 0, state |-> "FREE", subs |-> {}, awaited |-> "none"]
NoTick == [id |-> << >>, pending |-> {}]
NoReq == <<0, "-">>
NoMsg == [json |-> FALSE, type |-> "-", feed |-> "none", id |-> << >>]
NoRecv == [sock |-> 0, msg |-> NoMsg]


\* The state as one record, so that the synchronous code can be written as
\* functions from state to state.
Cur ==
  [driver |-> driver, fcLive |-> fcLive, fcWs |-> fcWs, fcCallbacks |-> fcCallbacks,
   fcAttempts |-> fcAttempts, timers |-> timers, socks |-> socks,
   pfsClient |-> pfsClient, pfsConnected |-> pfsConnected,
   subscriptions |-> subscriptions, pfsCallbacks |-> pfsCallbacks,
   closes |-> closes, stale |-> stale, sess |-> sess,
   subscribedPairs |-> subscribedPairs, unsubscribeFunctions |-> unsubscribeFunctions,
   hadListeners |-> [f \in FCs |->
                      IF fcWs[f] > 0 /\ socks[fcWs[f]].state = "OPEN" THEN {}
                      ELSE hadListeners[f]],
   tick |-> IF tick.pending = {} THEN NoTick ELSE tick, got |-> EmptyBag, sent |-> << >>, lcalls |-> << >>, ccalls |-> << >>,
   out |-> << >>, req |-> NoReq, fetches |-> fetches, recv |-> NoRecv,
   running |-> running, op |-> op,
   exc |-> FALSE]

\* ------------------------------------------------------------- FeedClient
\* FeedClient.isConnected
isConnected(W, f) == W.fcWs[f] > 0 /\ W.socks[W.fcWs[f]].state = "OPEN"

\* ws.send of a subscribe/unsubscribe message; the upstream applies it
wsSend(W, s, type, ids) ==
  [W EXCEPT !.sent = Append(@, [sock |-> s, type |-> type, ids |-> ids]),
            !.socks[s].subs = IF type = "subscribe" THEN @ \cup ids ELSE @ \ ids]

subscribeToPriceFeeds(W, f, feedIds) ==
  IF W.fcWs[f] <= 0 \/ W.socks[W.fcWs[f]].state # "OPEN" THEN W
  ELSE wsSend(W, W.fcWs[f], "subscribe", {normalizeFeedId(i) : i \in feedIds})

unsubscribeFromPriceFeeds(W, f, feedIds) ==
  IF W.fcWs[f] <= 0 \/ W.socks[W.fcWs[f]].state # "OPEN" THEN W
  ELSE wsSend(W, W.fcWs[f], "unsubscribe", {normalizeFeedId(i) : i \in feedIds})

\* a registration under the identifier as it was given
registerPriceFeedCallback_RawKey(W, f, feedId, callback) ==
  LET id == feedId
      old == IF id \in DOMAIN W.fcCallbacks[f] THEN W.fcCallbacks[f][id] ELSE << >>
      W1 == [W EXCEPT !.fcCallbacks[f] = MapSet(@, id, Append(old, callback))]
  IN IF Len(W1.fcCallbacks[f][id]) = 1 /\ isConnected(W1, f)
     THEN subscribeToPriceFeeds(W1, f, {id})
     ELSE W1

\* a registration that puts the listener in front
registerPriceFeedCallback_Unshift(W, f, feedId, callback) ==
  LET id == normalizeFeedId(feedId)
      old == IF id \in DOMAIN W.fcCallbacks[f] THEN W.fcCallbacks[f][id] ELSE << >>
      W1 == [W EXCEPT !.fcCallbacks[f] = MapSet(@, id, <<callback>> \o old)]
  IN IF Len(W1.fcCallbacks[f][id]) = 1 /\ isConnected(W1, f)
     THEN subscribeToPriceFeeds(W1, f, {id})
     ELSE W1

registerPriceFeedCallback(W, f, feedId, callback) ==
  LET id == normalizeFeedId(feedId)
      old == IF id \in DOMAIN W.fcCallbacks[f] THEN W.fcCallbacks[f][id] ELSE << >>
      W1 == [W EXCEPT !.fcCallbacks[f] = MapSet(@, id, Append(old, callback))]
  IN IF Len(W1.fcCallbacks[f][id]) = 1 /\ isConnected(W1, f)
     THEN subscribeToPriceFeeds(W1, f, {id})
     ELSE W1

unregisterPriceFeedCallback(W, f, feedId, callback) ==
  LET id == normalizeFeedId(feedId)
  IN IF id \notin DOMAIN W.fcCallbacks[f] THEN W
     ELSE LET cbs == W.fcCallbacks[f][id]
              idx == indexOf(cbs, callback)
              cbs1 == IF idx > 0 THEN splice1(cbs, idx) ELSE cbs
              W1 == [W EXCEPT !.fcCallbacks[f] = MapSet(@, id, cbs1)]
          IN IF Len(cbs1) = 0 /\ isConnected(W1, f)
             THEN [unsubscribeFromPriceFeeds(W1, f, {id})
                     EXCEPT !.fcCallbacks[f] = MapDel(@, id)]
             ELSE W1

\* ------------------------------------------------------ PriceFeedService
\* PriceFeedService.isConnected
PriceFeedService_isConnected(W) ==
  W.pfsConnected /\ W.pfsClient # 0 /\ isConnected(W, W.pfsClient)

\* a dispatcher closure of the pair that nothing references
UsedGens(W, pair) ==
  {g \in Gens :
     \/ (pair \in DOMAIN W.pfsCallbacks /\ W.pfsCallbacks[pair] = Dispatcher(pair, g))
     \/ \E f \in FCs : \E id \in DOMAIN W.fcCallbacks[f] :
          Dispatcher(pair, g) \in Elems(W.fcCallbacks[f][id])}

FreshGen(W, pair) ==
  CHOOSE g \in Gens \ UsedGens(W, pair) : \A h \in Gens \ UsedGens(W, pair) : g <= h
\* subscribeToPair without the check for an existing dispatcher of the pair
subscribeToPair_NoReuse(W, pair, callback) ==
  IF W.pfsClient = 0 \/ ~W.pfsConnected THEN [W EXCEPT !.exc = TRUE]
  ELSE IF pair \notin Pairs THEN [W EXCEPT !.exc = TRUE]
  ELSE LET feedId == getFeedId(pair)
           old == IF pair \in DOMAIN W.subscriptions THEN W.subscriptions[pair] ELSE << >>
           W1 == [W EXCEPT !.subscriptions = MapSet(@, pair, setAdd(old, callback))]
           pythCallback == Dispatcher(pair, FreshGen(W1, pair))
           W2 == [W1 EXCEPT !.pfsCallbacks = MapSet(@, pair, pythCallback)]
       IN registerPriceFeedCallback(W2, W2.pfsClient, feedId, pythCallback)

\* subscribeToPair that adds the consumer before its checks
subscribeToPair_AddFirst(W, pair, callback) ==
  LET old == IF pair \in DOMAIN W.subscriptions THEN W.subscriptions[pair] ELSE << >>
      W1 == [W EXCEPT !.subscriptions = MapSet(@, pair, setAdd(old, callback))]
  IN IF W.pfsClient = 0 \/ ~W.pfsConnected THEN [W1 EXCEPT !.exc = TRUE]
     ELSE IF pair \notin Pairs THEN [W1 EXCEPT !.exc = TRUE]
     ELSE IF pair \in DOMAIN W1.pfsCallbacks THEN W1
     ELSE LET pythCallback == Dispatcher(pair, FreshGen(W1, pair))
              W2 == [W1 EXCEPT !.pfsCallbacks = MapSet(@, pair, pythCallback)]
          IN registerPriceFeedCallback(W2, W2.pfsClient, getFeedId(pair), pythCallback)

\* subscribeToPair up to its return; exc is set when it throws
subscribeToPair(W, pair, callback) ==
  IF W.pfsClient = 0 \/ ~W.pfsConnected THEN [W EXCEPT !.exc = TRUE]
  ELSE IF pair \notin Pairs THEN [W EXCEPT !.exc = TRUE]
  ELSE LET feedId == getFeedId(pair)
           old == IF pair \in DOMAIN W.subscriptions THEN W.subscriptions[pair] ELSE << >>
           W1 == [W EXCEPT !.subscriptions = MapSet(@, pair, setAdd(old, callback))]
       IN IF pair \in DOMAIN W1.pfsCallbacks THEN W1
          ELSE LET pythCallback == Dispatcher(pair, FreshGen(W1, pair))
                   W2 == [W1 EXCEPT !.pfsCallbacks = MapSet(@, pair, pythCallback)]
               IN registerPriceFeedCallback(W2, W2.pfsClient, feedId, pythCallback)

\* an unsubscribe handle that leaves the dispatcher of the pair in place
unsubscribe_KeepDispatcher(W, pair, callback) ==
  IF pair \notin DOMAIN W.subscriptions THEN W
  ELSE LET cbs == setDelete(W.subscriptions[pair], callback)
       IN IF Len(cbs) = 0 THEN [W EXCEPT !.subscriptions = MapDel(@, pair)]
          ELSE [W EXCEPT !.subscriptions = MapSet(@, pair, cbs)]

\* the unsubscribe handle returned by subscribeToPair(pair, callback)
unsubscribe(W, pair, callback) ==
  IF pair \notin DOMAIN W.subscriptions THEN W
  ELSE LET cbs == setDelete(W.subscriptions[pair], callback)
       IN IF Len(cbs) = 0
          THEN LET W1 == [W EXCEPT !.subscriptions = MapDel(@, pair)]
               IN IF pair \in DOMAIN W1.pfsCallbacks
                  THEN LET W2 == IF W1.pfsClient # 0
                                 THEN unregisterPriceFeedCallback(W1, W1.pfsClient,
                                        getFeedId(pair), W1.pfsCallbacks[pair])
                                 ELSE W1
                       IN [W2 EXCEPT !.pfsCallbacks = MapDel(@, pair)]
                  ELSE W1
          ELSE [W EXCEPT !.subscriptions = MapSet(@, pair, cbs)]

\* ---------------------------------------------------------------- dispatch
\* What the callbacks of user code do when invoked is an input of a tick:
\* beh.c[consumer] in {"ok", "throw", "unsub"} (unsub: the callback invokes its
\* own unsubscribe handle), beh.l[listener] = [do, target] with do in
\* {"ok", "throw", "unreg"} (unreg: it unregisters the listener target).
\* The closures of handleSubscribe only send a message on an open socket.
\* callbacks that do nothing but return
NoBeh == [c |-> [x \in InProcCbs |-> "ok"],
          l |-> [x \in DirectListeners |-> [do |-> "ok", target |-> Direct(1)]]]

ConsumerDoes(beh, cb) == IF cb.sess = 0 THEN beh.c[cb] ELSE "ok"

\* the catch blocks
catchConsumer(W) == [W EXCEPT !.exc = FALSE]
catchPythCallback(W) == [W EXCEPT !.exc = FALSE]
\* no try/catch around a listener: the exception leaves the loop
catchListener_Rethrow(W) == W

catchListener(W) == [W EXCEPT !.exc = FALSE]
catchHandlePriceUpdate(W) == [W EXCEPT !.exc = FALSE]

\* a sendMessage without the readyState check
sendMessage_NoCheck(W, s, type, pair, code) ==
  [W EXCEPT !.out = Append(@, [to |-> s, type |-> type, pair |-> pair, code |-> code])]

\* WebSocketHandler.sendMessage
sendMessage(W, s, type, pair, code) ==
  IF W.sess[s] = "open"
  THEN [W EXCEPT !.out = Append(@, [to |-> s, type |-> type, pair |-> pair, code |-> code])]
  ELSE W

\* a handleConnection without the welcome message
handleConnection_NoWelcome(W, s) == [W EXCEPT !.sess[s] = "open"]

\* handleConnection: the ClientState is stored, the welcome message is sent
handleConnection(W, s) ==
  sendMessage([W EXCEPT !.sess[s] = "open"], s, "connected", "-", "-")

\* a sendError that sends nothing
sendError_Silent(W, s, pair, code) == W

\* WebSocketHandler.sendError
sendError(W, s, pair, code) == sendMessage(W, s, "error", pair, code)

\* cb(priceData)
InvokeConsumer(W, pair, cb, beh) ==
  LET W0 == [W EXCEPT !.ccalls = Append(@, [c |-> cb, pair |-> pair,
                                            did |-> ConsumerDoes(beh, cb)]),
                      !.got = @ (+) SetToBag({cb})]
      W1 == IF cb.sess # 0 THEN sendMessage(W0, cb.sess, "price_update", pair, "-") ELSE W0
  IN CASE ConsumerDoes(beh, cb) = "ok" -> W1
       [] ConsumerDoes(beh, cb) = "throw" -> [W1 EXCEPT !.exc = TRUE]
       [] ConsumerDoes(beh, cb) = "unsub" -> unsubscribe(W1, pair, cb)

\* callbacks.forEach of a Set: insertion order, an element deleted before its
\* turn is not visited
RECURSIVE SetForEach(_, _, _, _, _)
SetForEach(W, pair, order, k, beh) ==
  IF k > Len(order) THEN W
  ELSE LET now == IF pair \in DOMAIN W.subscriptions THEN Elems(W.subscriptions[pair]) ELSE {}
           W1 == IF order[k] \in now
                 THEN catchConsumer(InvokeConsumer(W, pair, order[k], beh))
                 ELSE W
       IN IF W1.exc THEN W1 ELSE SetForEach(W1, pair, order, k + 1, beh)
\* a fan-out that stops after the first consumer
pythCallback_FirstOnly(W, pair, beh) ==
  LET callbacks == IF pair \in DOMAIN W.subscriptions THEN W.subscriptions[pair] ELSE << >>
  IN catchPythCallback(IF Len(callbacks) > 0
                       THEN SetForEach(W, pair, SubSeq(callbacks, 1, 1), 1, beh)
                       ELSE W)

\* the dispatcher closure pythCallback of a pair
pythCallback(W, pair, beh) ==
  LET callbacks == IF pair \in DOMAIN W.subscriptions THEN W.subscriptions[pair] ELSE << >>
  IN catchPythCallback(IF Len(callbacks) > 0 THEN SetForEach(W, pair, callbacks, 1, beh)
                       ELSE W)

\* callback(validatedPriceFeed)
InvokeListener(W, f, id, l, beh) ==
  LET did == IF l.kind = "disp" THEN NoBeh.l[Direct(1)] ELSE beh.l[l]
      W1 == [W EXCEPT !.lcalls = Append(@, [l |-> l, did |-> did])]
  IN IF l.kind = "disp" THEN pythCallback(W1, l.pair, beh)
     ELSE CASE beh.l[l].do = "ok" -> W1
            [] beh.l[l].do = "throw" -> [W1 EXCEPT !.exc = TRUE]
            [] beh.l[l].do = "unreg" ->
                 unregisterPriceFeedCallback(W1, f, id, beh.l[l].target)

\* callbacks.forEach of an array: indices 0..len-1 of the length at the start,
\* an index no longer present is skipped, the element read is the current one
RECURSIVE ArrForEach(_, _, _, _, _, _)
ArrForEach(W, f, id, k, len0, beh) ==
  IF k > len0 THEN W
  ELSE LET arr == IF id \in DOMAIN W.fcCallbacks[f] THEN W.fcCallbacks[f][id] ELSE << >>
           W1 == IF k <= Len(arr)
                 THEN catchListener(InvokeListener(W, f, id, arr[k], beh))
                 ELSE W
       IN IF W1.exc THEN W1 ELSE ArrForEach(W1, f, id, k + 1, len0, beh)

\* An upstream message: whether JSON.parse accepts the text, its type, and its
\* price_feed: "none" (absent), "broken" (a field that is read is missing, the
\* read throws), "invalid" (PriceFeedResponseSchema rejects it) or "valid",
\* with the id it carries.
UpMsg(rawId) == [json |-> TRUE, type |-> "price_update", feed |-> "valid", id |-> rawId]

\* a handlePriceUpdate that dispatches what the schema rejects
handlePriceUpdate_NoValidation(W, f, message, beh) ==
  IF message.feed = "none" THEN W
  ELSE LET feedId == normalizeFeedId(message.id)
           callbacks == IF feedId \in DOMAIN W.fcCallbacks[f] THEN W.fcCallbacks[f][feedId]
                        ELSE << >>
       IN catchHandlePriceUpdate(
            IF Len(callbacks) > 0 THEN ArrForEach(W, f, feedId, 1, Len(callbacks), beh)
            ELSE W)

\* FeedClient.handlePriceUpdate
handlePriceUpdate(W, f, message, beh) ==
  IF message.feed = "none" THEN W
  ELSE IF message.feed # "valid" THEN catchHandlePriceUpdate([W EXCEPT !.exc = TRUE])
  ELSE LET feedId == normalizeFeedId(message.id)
           callbacks == IF feedId \in DOMAIN W.fcCallbacks[f] THEN W.fcCallbacks[f][feedId]
                        ELSE << >>
       IN catchHandlePriceUpdate(
            IF Len(callbacks) > 0 THEN ArrForEach(W, f, feedId, 1, Len(callbacks), beh)
            ELSE W)

\* this.ws.on("message"): a text that does not parse is caught and logged
onWsMessage(W, f, message, beh) ==
  IF ~message.json THEN W
  ELSE IF message.type = "price_update" THEN handlePriceUpdate(W, f, message, beh)
  ELSE W


\* ------------------------------------------------------------ WebSocketHandler
isPairSupported(pair) == pair \in Pairs

\* a handleSubscribe without the check for a pair already subscribed
handleSubscribe_NoCheck(W, s, pair) ==
  IF ~isPairSupported(pair) THEN sendError(W, s, pair, "UNSUPPORTED_PAIR")
  ELSE LET W1 == subscribeToPair(W, pair, SessCb(s, pair))
       IN IF W1.exc
          THEN sendError([W1 EXCEPT !.exc = FALSE], s, pair, "SUBSCRIPTION_FAILED")
          ELSE sendMessage(
                 [W1 EXCEPT !.unsubscribeFunctions = @ \cup {<<s, pair>>},
                            !.subscribedPairs[s] = setAdd(@, pair)],
                 s, "subscribed", pair, "-")

\* handleSubscribe (it has no await: it runs to completion)
handleSubscribe(W, s, pair) ==
  IF ~isPairSupported(pair) THEN sendError(W, s, pair, "UNSUPPORTED_PAIR")
  ELSE IF indexOf(W.subscribedPairs[s], pair) > 0 THEN W
  ELSE LET W1 == subscribeToPair(W, pair, SessCb(s, pair))
       IN IF W1.exc
          THEN sendError([W1 EXCEPT !.exc = FALSE], s, pair, "SUBSCRIPTION_FAILED")
          ELSE sendMessage(
                 [W1 EXCEPT !.unsubscribeFunctions = @ \cup {<<s, pair>>},
                            !.subscribedPairs[s] = setAdd(@, pair)],
                 s, "subscribed", pair, "-")

\* a handleUnsubscribe that forgets the pair without invoking the handle
handleUnsubscribe_NoHandle(W, s, pair) ==
  IF indexOf(W.subscribedPairs[s], pair) = 0 THEN W
  ELSE sendMessage([W EXCEPT !.subscribedPairs[s] = setDelete(@, pair)],
                   s, "unsubscribed", pair, "-")

handleUnsubscribe(W, s, pair) ==
  IF indexOf(W.subscribedPairs[s], pair) = 0 THEN W
  ELSE LET W1 == IF <<s, pair>> \in W.unsubscribeFunctions
                 THEN [unsubscribe(W, pair, SessCb(s, pair))
                         EXCEPT !.unsubscribeFunctions = @ \ {<<s, pair>>}]
                 ELSE W
       IN sendMessage([W1 EXCEPT !.subscribedPairs[s] = setDelete(@, pair)],
                      s, "unsubscribed", pair, "-")

\* clientState.subscribedPairs.forEach of handleDisconnect
RECURSIVE DisconnectForEach(_, _, _, _)
DisconnectForEach(W, s, order, k) ==
  IF k > Len(order) THEN W
  ELSE LET pair == order[k]
           W1 == IF <<s, pair>> \in W.unsubscribeFunctions
                 THEN [unsubscribe(W, pair, SessCb(s, pair))
                         EXCEPT !.unsubscribeFunctions = @ \ {<<s, pair>>}]
                 ELSE W
       IN DisconnectForEach(W1, s, order, k + 1)
\* a disconnect that invokes the handles and leaves them stored
handleDisconnect_KeepHandles(W, s) ==
  [DisconnectForEach([W EXCEPT !.sess[s] = "closed"], s, W.subscribedPairs[s], 1)
     EXCEPT !.unsubscribeFunctions = W.unsubscribeFunctions]
\* a disconnect that only forgets the client
handleDisconnect_NoCleanup(W, s) == [W EXCEPT !.sess[s] = "closed"]

\* the socket is closed when the close event runs; this.clients.delete(ws)
handleDisconnect(W, s) ==
  DisconnectForEach([W EXCEPT !.sess[s] = "closed"], s, W.subscribedPairs[s], 1)

\* PriceFeedService.getCurrentPrice up to its await: the HTTP request of
\* getLatestPriceUpdates is in flight; exc is set when it throws before
getCurrentPrice(W, pair, who) ==
  IF W.pfsClient = 0 THEN [W EXCEPT !.exc = TRUE]
  ELSE IF pair \notin Pairs THEN [W EXCEPT !.exc = TRUE]
  ELSE [W EXCEPT !.fetches = Append(@, <<who, pair>>)]

\* a handleGetPrice that subscribes the session to the pair it reads
handleGetPrice_Subscribes(W, s, pair) ==
  IF ~isPairSupported(pair) THEN sendError(W, s, pair, "UNSUPPORTED_PAIR")
  ELSE LET W1 == getCurrentPrice(handleSubscribe(W, s, pair), pair, s)
       IN IF W1.exc
          THEN sendError([W1 EXCEPT !.exc = FALSE], s, pair, "PRICE_FETCH_FAILED")
          ELSE W1

\* handleGetPrice up to its await
handleGetPrice(W, s, pair) ==
  IF ~isPairSupported(pair) THEN sendError(W, s, pair, "UNSUPPORTED_PAIR")
  ELSE LET W1 == getCurrentPrice(W, pair, s)
       IN IF W1.exc
          THEN sendError([W1 EXCEPT !.exc = FALSE], s, pair, "PRICE_FETCH_FAILED")
          ELSE W1

\* the rest of getCurrentPrice and handleGetPrice, when the HTTP request i has
\* ended: ok when it returned a parsed price
getPriceDone(W, i, ok) ==
  LET s == W.fetches[i][1]
      pair == W.fetches[i][2]
      W1 == [W EXCEPT !.fetches = splice1(@, i)]
  IN IF ok THEN sendMessage(W1, s, "price_update", pair, "-")
     ELSE sendError(W1, s, pair, "PRICE_FETCH_FAILED")

\* A client message: whether JSON.parse accepts the text, and the type and
\* pair fields of the parsed value (hasPair: pair is present and a string).
Msg(type, pair) == [json |-> TRUE, type |-> type, hasPair |-> TRUE, pair |-> pair]

\* ClientMessageSchema: a discriminated union on type, pair: z.string().min(1)
ClientMessageSchema(msg) ==
  /\ msg.type \in {"subscribe", "unsubscribe", "get_price"}
  /\ msg.hasPair /\ msg.pair # ""

\* a handleMessage that drops what it cannot validate
handleMessage_Silent(W, s, msg) ==
  IF ~msg.json THEN W
  ELSE IF ~ClientMessageSchema(msg) THEN W
  ELSE CASE msg.type = "subscribe" -> handleSubscribe(W, s, msg.pair)
         [] msg.type = "unsubscribe" -> handleUnsubscribe(W, s, msg.pair)
         [] msg.type = "get_price" -> handleGetPrice(W, s, msg.pair)
         [] OTHER -> sendError(W, s, "-", "UNKNOWN_MESSAGE_TYPE")

\* WebSocketHandler.handleMessage
handleMessage(W, s, msg) ==
  IF ~msg.json THEN sendError(W, s, "-", "INTERNAL_ERROR")
  ELSE IF ~ClientMessageSchema(msg) THEN sendError(W, s, "-", "INVALID_MESSAGE")
  ELSE CASE msg.type = "subscribe" -> handleSubscribe(W, s, msg.pair)
         [] msg.type = "unsubscribe" -> handleUnsubscribe(W, s, msg.pair)
         [] msg.type = "get_price" -> handleGetPrice(W, s, msg.pair)
         [] OTHER -> sendError(W, s, "-", "UNKNOWN_MESSAGE_TYPE")

\* ------------------------------------------------------- connection lifecycle
LiveSocks(W) == {s \in Socks : W.socks[s].state \in {"CONNECTING", "OPEN"}}
\* sockets on which close() was called and whose close event has not run yet
ClosingSocks(W) == {s \in Socks : W.socks[s].state = "CLOSING"}
FreeSocks(W) == {s \in Socks : W.socks[s].state = "FREE"}
FreeFCs(W) == {f \in FCs : ~W.fcLive[f]}
Min(S) == CHOOSE x \in S : \A y \in S : x <= y

\* The timers that one close event has set: setTimeout(initialize) of the
\* onClose handler (init) and the setTimeout of attemptReconnect (rec), each the
\* delay in ms, 0 when not set or fired.
NewEvent(f) == [f |-> f, init |-> 0, rec |-> 0]

ReconnectTimers(W, f) == {i \in 1..Len(W.timers) : W.timers[i].f = f /\ W.timers[i].rec > 0}

\* Timers fire by their due time: one that was set no later, with no longer a
\* delay, fires first.
Due(W, i, delay) ==
  \A j \in 1..i :
    /\ (W.timers[j].init > 0 /\ <<j, W.timers[j].init>> # <<i, delay>>)
         => W.timers[j].init > delay
    /\ (W.timers[j].rec > 0 /\ <<j, W.timers[j].rec>> # <<i, delay>>)
         => W.timers[j].rec > delay

RECURSIVE Pending(_)
Pending(ts) ==
  IF ts = << >> THEN << >>
  ELSE IF Head(ts).init = 0 /\ Head(ts).rec = 0 THEN Pending(Tail(ts))
  ELSE <<Head(ts)>> \o Pending(Tail(ts))

RECURSIVE Pow2(_)
Pow2(n) == IF n = 0 THEN 1 ELSE 2 * Pow2(n - 1)

\* connections that exist or are scheduled
Load(W) ==
  Cardinality(LiveSocks(W)) + Cardinality(ClosingSocks(W))
    + Cardinality({i \in 1..Len(W.timers) : W.timers[i].rec > 0})

\* An instance that nothing refers to any more is garbage; its slot is reused.
Reachable(W, f) ==
  \/ W.driver = "sdk"
  \/ W.pfsClient = f
  \/ ReconnectTimers(W, f) # {}
  \/ \E s \in LiveSocks(W) \cup ClosingSocks(W) : W.socks[s].owner = f

Collect(W) ==
  LET live == [f \in FCs |-> W.fcLive[f] /\ Reachable(W, f)]
  IN [W EXCEPT !.fcLive = live,
               !.fcWs = [f \in FCs |-> IF live[f] THEN @[f] ELSE 0],
               !.fcCallbacks = [f \in FCs |-> IF live[f] THEN @[f] ELSE EmptyMap],
               !.fcAttempts = [f \in FCs |-> IF live[f] THEN @[f] ELSE 0],
               !.hadListeners = [f \in FCs |-> IF live[f] THEN @[f] ELSE {}],
               !.timers = Pending(@),
               !.tick.pending = {s \in @ : W.socks[s].state = "OPEN"}]

Commit(W0) ==
  \E W \in {Collect(W0)} :
     /\ driver' = W.driver /\ fcLive' = W.fcLive /\ fcWs' = W.fcWs
     /\ fcCallbacks' = W.fcCallbacks /\ fcAttempts' = W.fcAttempts
     /\ timers' = W.timers /\ socks' = W.socks
     /\ pfsClient' = W.pfsClient /\ pfsConnected' = W.pfsConnected
     /\ subscriptions' = W.subscriptions /\ pfsCallbacks' = W.pfsCallbacks
     /\ closes' = W.closes /\ stale' = W.stale
     /\ hadListeners' = W.hadListeners
     /\ sess' = W.sess
     /\ subscribedPairs' = W.subscribedPairs
     /\ unsubscribeFunctions' = W.unsubscribeFunctions
     /\ tick' = W.tick /\ got' = W.got /\ sent' = W.sent /\ lcalls' = W.lcalls
     /\ ccalls' = W.ccalls /\ out' = W.out /\ req' = W.req
     /\ fetches' = W.fetches /\ recv' = W.recv /\ nf' = nf
     /\ running' = W.running /\ op' = W.op

\* this.ws = new WebSocket(this.url) of listenForPriceUpdates
listenForPriceUpdates(W, f, awaited) ==
  LET s == Min(FreeSocks(W))
  IN [W EXCEPT !.socks[s] = [owner |-> f, state |-> "CONNECTING", subs |-> {},
                             awaited |-> awaited],
               !.fcWs[f] = s]

\* a backoff that grows linearly
attemptReconnect_Linear(W, f) ==
  IF W.fcAttempts[f] >= maxReconnectAttempts THEN W
  ELSE LET W1 == [W EXCEPT !.fcAttempts[f] = @ + 1]
           delay == reconnectDelay * W1.fcAttempts[f]
       IN [W1 EXCEPT !.timers[Len(W.timers)].rec = delay]

\* FeedClient.attemptReconnect, called by the close handler
attemptReconnect(W, f) ==
  IF W.fcAttempts[f] >= maxReconnectAttempts THEN W
  ELSE LET W1 == [W EXCEPT !.fcAttempts[f] = @ + 1]
           delay == reconnectDelay * Pow2(W1.fcAttempts[f] - 1)
       IN [W1 EXCEPT !.timers[Len(W.timers)].rec = delay]

\* the onClose handler that PriceFeedService.initialize passes to its FeedClient
onClose(W) ==
  [W EXCEPT !.pfsConnected = FALSE, !.timers[Len(W.timers)].init = initializeDelay]

\* the ids of a FeedClient that have a non-empty listener array
WithListeners(W, f) ==
  {id \in DOMAIN W.fcCallbacks[f] : Len(W.fcCallbacks[f][id]) > 0}

\* the socket has closed: it is no longer a live socket
closeSocket(W, s) ==
  LET f == W.socks[s].owner
  IN [W EXCEPT !.socks[s] = FreeSock,
               !.hadListeners[f] = IF W.fcWs[f] = s /\ W.socks[s].state = "OPEN"
                                   THEN WithListeners(W, f) ELSE @,
               !.fcWs[f] = IF @ = s THEN -1 ELSE @]

\* this.ws.on("close")
onWsClose(W, f) ==
  LET W1 == [W EXCEPT !.timers = Append(@, NewEvent(f))]
  IN attemptReconnect(IF W1.driver # "sdk" THEN onClose(W1) ELSE W1, f)
\* an open handler that does not subscribe again
onWsOpen_NoResubscribe(W, s) ==
  LET f == W.socks[s].owner
      W1 == [W EXCEPT !.fcAttempts[f] = 0]
  IN IF W.socks[s].awaited # "none"
     THEN [W1 EXCEPT !.pfsConnected = TRUE, !.socks[s].awaited = "none"]
     ELSE W1

\* this.ws.on("open"), then the continuation of an awaiting initialize
onWsOpen(W, s) ==
  LET f == W.socks[s].owner
      W1 == [W EXCEPT !.fcAttempts[f] = 0]
      feedIds == DOMAIN W1.fcCallbacks[f]
      W2 == IF feedIds # {} THEN subscribeToPriceFeeds(W1, f, feedIds) ELSE W1
  IN IF W.socks[s].awaited # "none"
     THEN [W2 EXCEPT !.pfsConnected = TRUE, !.socks[s].awaited = "none"]
     ELSE W2

\* FeedClient.close: ws.close() starts the closing handshake of a socket that
\* is connecting or open (the upstream stops publishing to it) and does
\* nothing on one that has closed
close(W, f) ==
  IF W.fcWs[f] = 0 THEN W
  ELSE LET s == W.fcWs[f]
           W1 == IF s > 0 /\ W.socks[s].state \in {"CONNECTING", "OPEN"}
                 THEN [W EXCEPT !.socks[s].state = "CLOSING", !.socks[s].subs = {}]
                 ELSE W
       IN [W1 EXCEPT !.fcWs[f] = 0]

\* PriceFeedService.close
PriceFeedService_close(W) ==
  IF W.pfsClient = 0 THEN W
  ELSE [close(W, W.pfsClient) EXCEPT !.pfsConnected = FALSE,
                                     !.subscriptions = EmptyMap,
                                     !.pfsCallbacks = EmptyMap]

\* PriceFeedService.initialize up to its await
initialize(W, from) ==
  IF W.pfsConnected THEN W
  ELSE LET f == Min(FreeFCs(W))
           W1 == [W EXCEPT !.fcLive[f] = TRUE, !.pfsClient = f]
       IN listenForPriceUpdates(W1, f, from)

\* ------------------------------------------------------------------ actions
InitState ==
  /\ driver \in {"service", "server", "sdk", "unattended", "outage"}
  /\ fcLive = [f \in FCs |-> driver = "sdk" /\ f = 1]
  /\ fcWs = [f \in FCs |-> 0]
  /\ fcCallbacks = [f \in FCs |-> EmptyMap]
  /\ fcAttempts = [f \in FCs |-> 0]
  /\ timers = << >>
  /\ socks = [s \in Socks |-> FreeSock]
  /\ pfsClient = 0
  /\ pfsConnected = FALSE
  /\ subscriptions = EmptyMap
  /\ pfsCallbacks = EmptyMap
  /\ closes = 0
  /\ hadListeners = [f \in FCs |-> {}]
  /\ stale = NoHandle
  /\ sess = [s \in Sessions |-> "new"]
  /\ subscribedPairs = [s \in Sessions |-> << >>]
  /\ unsubscribeFunctions = {}
  /\ tick = NoTick
  /\ got = EmptyBag
  /\ sent = << >>
  /\ lcalls = << >>
  /\ ccalls = << >>
  /\ out = << >>
  /\ req = NoReq
  /\ fetches = << >>
  /\ recv = NoRecv
  /\ running = TRUE
  /\ op = "init"

Init == InitState /\ nf = << >>

\* The price_update messages of one tick are handled back to back.
Quiet == running /\ tick.pending = {}

\* the bootstrap (or the owner of the service) calls initialize()
Start ==
  /\ Quiet /\ driver # "sdk" /\ pfsClient = 0
  /\ Commit([initialize(Cur, "start") EXCEPT !.op = "initialize"])

\* a setTimeout(() => this.initialize(), 5000) fires
InitTimer(i) ==
  /\ Quiet /\ timers[i].init > 0 /\ Due(Cur, i, timers[i].init)
  /\ Commit([initialize([Cur EXCEPT !.timers[i].init = 0], "timer")
               EXCEPT !.op = "initializeTimer"])

\* the handshake of a connecting socket completes
SockOpen(s) ==
  /\ Quiet /\ socks[s].state = "CONNECTING"
  /\ Commit([onWsOpen([Cur EXCEPT !.socks[s].state = "OPEN"], s)
               EXCEPT !.op = "open"])

CloseBound ==
  /\ driver \in {"service", "server"} => closes + Cardinality(ClosingSocks(Cur)) < MaxCloses
  /\ driver = "unattended" => closes < MaxOutage
  /\ driver = "outage" => closes < MaxServerCloses
Closed(W) ==
  IF W.driver # "sdk" THEN [W EXCEPT !.closes = @ + 1] ELSE W

\* the handshake fails: "error" (the promise rejects), then "close".
\* A rejected initialize of the bootstrap exits the process; one that a timer
\* started is an unhandled rejection, which ends the process or not.
SockFail(s, dies) ==
  /\ Quiet /\ socks[s].state = "CONNECTING" /\ CloseBound
  /\ dies \in CASE socks[s].awaited = "timer" -> {TRUE, FALSE}
                [] socks[s].awaited = "start" /\ driver \in {"server", "outage"} -> {TRUE}
                [] OTHER -> {FALSE}
  /\ Commit([onWsClose(closeSocket(Closed(Cur), s), socks[s].owner)
               EXCEPT !.running = ~dies,
                      !.op = "connectFailed"])

\* an open socket is closed by the upstream or the network
SockDrop(s) ==
  /\ Quiet /\ socks[s].state = "OPEN" /\ CloseBound
  /\ Commit([onWsClose(closeSocket(Closed(Cur), s), socks[s].owner)
               EXCEPT !.op = "drop"])

\* the "close" event of a socket on which close() was called. The promise of a
\* handshake that close() aborted rejects, as in SockFail.
SockClosed(s, dies) ==
  /\ Quiet /\ socks[s].state = "CLOSING"
  /\ dies \in CASE socks[s].awaited = "timer" -> {TRUE, FALSE}
                [] socks[s].awaited = "start" /\ driver \in {"server", "outage"} -> {TRUE}
                [] OTHER -> {FALSE}
  /\ Commit([onWsClose(closeSocket(Closed(Cur), s), socks[s].owner)
               EXCEPT !.running = ~dies,
                      !.op = "closed"])

\* the setTimeout of attemptReconnect fires
ReconnectTimer(i) ==
  /\ Quiet /\ timers[i].rec > 0 /\ Due(Cur, i, timers[i].rec)
  /\ Commit([listenForPriceUpdates([Cur EXCEPT !.timers[i].rec = 0], timers[i].f, "none")
               EXCEPT !.op = "reconnect"])

\* the upstream publishes a tick of id to every socket subscribed to it
Publish(id) ==
  /\ Quiet
  /\ {s \in Socks : socks[s].state = "OPEN" /\ id \in socks[s].subs} # {}
  /\ Commit([Cur EXCEPT !.tick = [id |-> id,
                                  pending |-> {s \in Socks : socks[s].state = "OPEN"
                                                             /\ id \in socks[s].subs}],
                        !.op = "publish"])

CBehs == {"ok", "throw", "unsub"}
LBehs == {[do |-> "ok", target |-> Direct(1)], [do |-> "throw", target |-> Direct(1)]}
           \cup {[do |-> "unreg", target |-> l] : l \in DirectListeners}

\* the consumers and listeners a tick of id can reach
ReachedC(id) ==
  UNION {Elems(subscriptions[p]) : p \in {q \in DOMAIN subscriptions :
                                            normalizeFeedId(getFeedId(q)) = id}}
ReachedL(f, id) ==
  IF id \in DOMAIN fcCallbacks[f] THEN Elems(fcCallbacks[f][id]) ELSE {}

Behs(f, id) ==
  LET cs == ReachedC(id) \cap InProcCbs
      ls == ReachedL(f, id) \cap DirectListeners
      lb == {b \in LBehs : b.do = "unreg" => b.target \in ls}
  IN {[c |-> [x \in InProcCbs |-> IF x \in cs THEN bc[x] ELSE "ok"],
       l |-> [x \in DirectListeners |-> IF x \in ls THEN bl[x] ELSE NoBeh.l[x]]] :
        bc \in [cs -> CBehs], bl \in [ls -> lb]}

\* the price_update message of the tick arrives on socket s
Deliver(s) ==
  /\ running /\ s \in tick.pending
  /\ \E beh \in Behs(socks[s].owner, tick.id) :
       Commit([onWsMessage([Cur EXCEPT !.tick.pending = @ \ {s}, !.got = got],
                           socks[s].owner, UpMsg(tick.id), beh)
                 EXCEPT !.recv = [sock |-> s, msg |-> UpMsg(tick.id)], !.op = "tick"])

\* the messages that arrive on a socket, whatever the upstream has subscribed:
\* price updates in every spelling of the id, and messages that are not one
InboundMsgs ==
  {UpMsg(r) : r \in {<<"0", "x", "E", "6">>, <<"e", "6">>, <<"E", "6">>, <<"0", "X", "f", "F">>}}
    \cup {[json |-> FALSE, type |-> "-", feed |-> "none", id |-> << >>],
          [json |-> TRUE, type |-> "response", feed |-> "none", id |-> << >>],
          [json |-> TRUE, type |-> "price_update", feed |-> "none", id |-> << >>],
          [json |-> TRUE, type |-> "price_update", feed |-> "broken", id |-> <<"e", "6">>],
          [json |-> TRUE, type |-> "price_update", feed |-> "invalid", id |-> <<"e", "6">>]}

WellFormed(msg) == msg.json /\ msg.type = "price_update" /\ msg.feed = "valid"

\* a message arrives on an open socket
Inbound(s, msg) ==
  /\ Quiet /\ socks[s].state = "OPEN"
  /\ \E beh \in (IF WellFormed(msg) THEN Behs(socks[s].owner, normalizeFeedId(msg.id))
                  ELSE {NoBeh}) :
       Commit([onWsMessage(Cur, socks[s].owner, msg, beh)
                 EXCEPT !.recv = [sock |-> s, msg |-> msg],
                        !.op = IF WellFormed(msg) THEN "tick" ELSE "dropped"])


\* ---- the PriceFeedService API used by in-process callers
AllPairNames == Pairs \cup {"DOGE/USD"}
\* the pairs in-process callers ask for
ApiPairs == {"BTC/USD", "DOGE/USD"}

\* a new dispatcher closure can be told apart from the ones still referenced
GenBound(pair) == pair \in Pairs => Gens \ UsedGens(Cur, pair) # {}

ApiSubscribe(pair, cb) ==
  /\ Quiet /\ driver = "service" /\ GenBound(pair)
  /\ LET W1 == subscribeToPair(Cur, pair, cb)
     IN Commit(IF W1.exc THEN [W1 EXCEPT !.op = "subscribeThrew"]
               ELSE IF pair \in DOMAIN subscriptions /\ cb \in Elems(subscriptions[pair])
               THEN [W1 EXCEPT !.op = "subscribeAgain"]
               ELSE [W1 EXCEPT !.op = "subscribe"])

\* The handle that a subscribeToPair(pair, cb) call returned is invoked for the
\* first time: the subscription it made is still there.
ApiUnsubscribe(h) ==
  /\ Quiet /\ driver = "service"
  /\ h[1] \in DOMAIN subscriptions /\ h[2] \in Elems(subscriptions[h[1]])
  /\ Commit([unsubscribe(Cur, h[1], h[2]) EXCEPT !.stale = h, !.op = "unsubscribe"])

\* the handle invoked last is invoked again
ApiUnsubscribeAgain ==
  /\ Quiet /\ driver = "service" /\ stale # NoHandle
  /\ Commit([unsubscribe(Cur, stale[1], stale[2]) EXCEPT !.op = "unsubscribeAgain"])

\* the owner of the service calls close()
ApiClose ==
  /\ Quiet /\ driver = "service" /\ pfsClient # 0 /\ CloseBound
  /\ Commit([PriceFeedService_close(Cur) EXCEPT !.op = "serviceClose"])

\* ---- the downstream sessions of the server
\* the WebSocket server is set up after the bootstrap's initialize() returned
Serving ==
  /\ Quiet /\ driver \in {"server", "outage"} /\ pfsClient # 0
  /\ \A s \in Socks : socks[s].awaited # "start"

\* handleConnection: a new ClientState, the welcome message
SessConnect(s) ==
  /\ Serving /\ sess[s] = "new" /\ \A t \in 1..(s - 1) : sess[t] # "new"
  /\ Commit([handleConnection(Cur, s) EXCEPT !.op = "connect"])

SessSubscribe(s, pair) ==
  /\ Serving /\ sess[s] = "open" /\ GenBound(pair)
  /\ Commit([handleMessage(Cur, s, Msg("subscribe", pair))
               EXCEPT !.req = <<s, pair>>, !.op = "sessSubscribe"])

SessUnsubscribe(s, pair) ==
  /\ Serving /\ sess[s] = "open"
  /\ Commit([handleMessage(Cur, s, Msg("unsubscribe", pair))
               EXCEPT !.req = <<s, pair>>, !.op = "sessUnsubscribe"])

SessGetPrice(s, pair) ==
  /\ Serving /\ sess[s] = "open" /\ Len(fetches) < MaxFetch
  /\ Commit([handleMessage(Cur, s, Msg("get_price", pair))
               EXCEPT !.req = <<s, pair>>, !.op = "sessGetPrice"])

\* the HTTP request of a get_price ends
FetchDone(i, ok) ==
  /\ Quiet
  /\ Commit([getPriceDone(Cur, i, ok) EXCEPT !.req = fetches[i], !.op = "fetchDone"])

\* text that is not JSON, a type that is not known, a pair that is missing,
\* not a string, or empty
BadMsgs ==
  {[json |-> FALSE, type |-> "-", hasPair |-> FALSE, pair |-> "-"],
   [json |-> TRUE, type |-> "ping", hasPair |-> TRUE, pair |-> "BTC/USD"],
   [json |-> TRUE, type |-> "subscribe", hasPair |-> FALSE, pair |-> "-"],
   [json |-> TRUE, type |-> "get_price", hasPair |-> TRUE, pair |-> ""]}

SessBadMessage(s, msg) ==
  /\ Serving /\ sess[s] = "open"
  /\ Commit([handleMessage(Cur, s, msg) EXCEPT !.req = <<s, "-">>, !.op = "badMessage"])

SessDisconnect(s) ==
  /\ Serving /\ sess[s] = "open"
  /\ Commit([handleDisconnect(Cur, s) EXCEPT !.op = "disconnect"])

\* ---- SDK user code that owns FeedClient 1
RawIds == {<<"0", "x", "E", "6">>, <<"e", "6">>, <<"0", "X", "f", "F">>}

\* the calls SDK code makes: two listeners on one feed, given in two
\* spellings, and one listener on another feed
SdkCalls == (RawIds \X DirectListeners) \ {<<<<"0", "X", "f", "F">>, Direct(2)>>}

ListenerBound(rawId) ==
  normalizeFeedId(rawId) \in DOMAIN fcCallbacks[1]
    => Len(fcCallbacks[1][normalizeFeedId(rawId)]) < MaxListeners

SdkRegister(rawId, l) ==
  /\ Quiet /\ driver = "sdk" /\ ListenerBound(rawId)
  /\ Commit([registerPriceFeedCallback(Cur, 1, rawId, l)
               EXCEPT !.op = "register"])

SdkUnregister(rawId, l) ==
  /\ Quiet /\ driver = "sdk"
  /\ Commit([unregisterPriceFeedCallback(Cur, 1, rawId, l)
               EXCEPT !.op = "unregister"])

SdkListen ==
  /\ Quiet /\ driver = "sdk" /\ Load(Cur) < MaxSock
  /\ Commit([listenForPriceUpdates(Cur, 1, "none") EXCEPT !.op = "listen"])

SdkClose ==
  /\ Quiet /\ driver = "sdk" /\ fcWs[1] # 0
  /\ Commit([close(Cur, 1) EXCEPT !.op = "close"])

\* socket events, timers and ticks
Connection ==
  \/ \E s \in Socks : SockOpen(s)
  \/ \E s \in Socks, dies \in BOOLEAN : SockFail(s, dies)
  \/ \E s \in Socks : SockDrop(s)
  \/ \E s \in Socks, dies \in BOOLEAN : SockClosed(s, dies)
  \/ \E i \in 1..Len(timers) : ReconnectTimer(i)
  \/ \E id \in Ids : Publish(id)
  \/ \E s \in Socks : Deliver(s)

\* PriceFeedService used by in-process callers
NextService ==
  \/ Start
  \/ \E i \in 1..Len(timers) : InitTimer(i)
  \/ Connection
  \/ \E pair \in ApiPairs, cb \in InProcCbs : ApiSubscribe(pair, cb)
  \/ \E h \in ApiPairs \X InProcCbs : ApiUnsubscribe(h)
  \/ ApiUnsubscribeAgain
  \/ ApiClose

\* sessions that subscribe and unsubscribe on top of PriceFeedService
NextSessions ==
  \/ Start
  \/ \E s \in Socks : SockOpen(s)
  \/ \E s \in Socks, dies \in BOOLEAN : SockFail(s, dies)
  \/ \E id \in Ids : Publish(id)
  \/ \E s \in Socks : Deliver(s)
  \/ \E s \in Sessions : SessConnect(s)
  \/ \E s \in Sessions, pair \in AllPairNames : SessSubscribe(s, pair)
  \/ \E s \in Sessions, pair \in AllPairNames : SessUnsubscribe(s, pair)
  \/ \E s \in Sessions : SessDisconnect(s)

\* the server: all client messages, while the upstream connection that the
\* bootstrap opened stays up
NextServer ==
  \/ NextSessions
  \/ \E s \in Sessions, pair \in AllPairNames : SessGetPrice(s, pair)
  \/ \E i \in 1..Len(fetches), ok \in BOOLEAN : FetchDone(i, ok)
  \/ \E s \in Sessions, msg \in BadMsgs : SessBadMessage(s, msg)

\* the server while the upstream connection drops and is set up again
NextServerUpstream ==
  \/ NextSessions
  \/ \E s \in Socks : SockDrop(s)
  \/ \E i \in 1..Len(timers) : ReconnectTimer(i)
  \/ \E i \in 1..Len(timers) : InitTimer(i)

\* the server while the upstream becomes unreachable and clients subscribe
NextServerOutage ==
  \/ Start
  \/ \E s \in Socks : SockOpen(s)
  \/ \E s \in Socks, dies \in BOOLEAN : SockFail(s, dies)
  \/ \E s \in Socks : SockDrop(s)
  \/ \E i \in 1..Len(timers) : ReconnectTimer(i)
  \/ \E i \in 1..Len(timers) : InitTimer(i)
  \/ \E s \in Sessions : SessConnect(s)
  \/ \E s \in Sessions, pair \in AllPairNames : SessSubscribe(s, pair)

\* a FeedClient of SDK code whose connection stays up, and the messages that
\* arrive on it
NextInbound ==
  \/ SdkListen
  \/ \E s \in Socks : SockOpen(s)
  \/ \E c \in SdkCalls : SdkRegister(c[1], c[2])
  \/ \E c \in SdkCalls : SdkUnregister(c[1], c[2])
  \/ \E s \in Socks, msg \in InboundMsgs : Inbound(s, msg)

\* normalizeFeedId is applied to the last result
Normalize ==
  /\ nf # << >> /\ Len(nf) < 3
  /\ nf' = Append(nf, normalizeFeedId(nf[Len(nf)]))
  /\ UNCHANGED <<driver, fcLive, fcWs, fcCallbacks, fcAttempts, timers, socks,
                 pfsClient, pfsConnected, subscriptions, pfsCallbacks, closes,
                 hadListeners, stale, sess, subscribedPairs, unsubscribeFunctions,
                 tick, got, sent, lcalls, ccalls, out, req, fetches, recv,
                 running, op>>

NextNormalize == Normalize

\* a FeedClient used directly by SDK code
NextSdk ==
  \/ Connection
  \/ \E c \in SdkCalls : SdkRegister(c[1], c[2])
  \/ \E c \in SdkCalls : SdkUnregister(c[1], c[2])
  \/ SdkListen
  \/ SdkClose

\* the service while the upstream is unreachable: no handshake completes
NextOutage ==
  \/ Start
  \/ \E i \in 1..Len(timers) : InitTimer(i)
  \/ \E s \in Socks, dies \in BOOLEAN : SockFail(s, dies)
  \/ \E i \in 1..Len(timers) : ReconnectTimer(i)

InitService == Init /\ driver = "service"
InitOutage == Init /\ driver = "unattended"
SpecOutage == InitOutage /\ [][NextOutage]_vars
InitServer == Init /\ driver = "server"
InitSdk == Init /\ driver = "sdk"
InitServerOutage == Init /\ driver = "outage"
\* The server with what the event loop guarantees: a message that has arrived
\* is handled. Nothing in the code ends an HTTP request that gets no answer
\* (fetch is called without a signal or a timer), and client messages and
\* answers of the HTTP source are up to the environment.
SpecServerFair ==
  InitServer /\ [][NextServer]_vars /\ \A s \in Socks : WF_vars(Deliver(s))
SpecInbound == InitSdk /\ [][NextInbound]_vars
InitNormalize == InitState /\ driver = "sdk" /\ nf \in {<<x>> : x \in IdStrings}
SpecNormalize == InitNormalize /\ [][NextNormalize]_vars
SpecServerOutage == InitServerOutage /\ [][NextServerOutage]_vars

SpecService == InitService /\ [][NextService]_vars
SpecServer == InitServer /\ [][NextServer]_vars
SpecServerUpstream == InitServer /\ [][NextServerUpstream]_vars
SpecSdk == InitSdk /\ [][NextSdk]_vars

TypeOK ==
  /\ driver \in {"service", "server", "sdk", "unattended", "outage"}
  /\ pfsClient \in {0} \cup FCs
  /\ \A i \in 1..Len(timers) : timers[i].f \in FCs /\ timers[i].init + timers[i].rec > 0
  /\ \A f \in FCs : fcWs[f] \in {-1, 0} \cup Socks /\ fcAttempts[f] \in 0..maxReconnectAttempts
  /\ Load(Cur) <= Cardinality(Socks)


\* PriceFeedService and the FeedClient of SDK code, side by side
NextRelay == NextService \/ NextSdk
InitRelay == Init /\ driver \in {"service", "sdk"}
SpecRelay == InitRelay /\ [][NextRelay]_vars

\* ------------------------------------------------------------- properties
idOf(pair) == normalizeFeedId(getFeedId(pair))

\* the array of listeners a FeedClient has for an id
ListenersOf(cbs, f, id) == IF id \in DOMAIN cbs[f] THEN cbs[f][id] ELSE << >>

DispatchersIn(arr) == {k \in 1..Len(arr) : arr[k].kind = "disp"}

\* the <<pair, consumer>> entries of all consumer sets
ConsumersOf(subs) == UNION {{<<p, c>> : c \in Elems(subs[p])} : p \in DOMAIN subs}

\* the upstream messages of a type that the last step sent for an id
SentFor(msgs, type, id) == {k \in 1..Len(msgs) : msgs[k].type = type /\ id \in msgs[k].ids}

\* the ids of the subscribe messages the last step sent on a socket
SubscribedOn(msgs, s) ==
  UNION {msgs[k].ids : k \in {j \in 1..Len(msgs) : msgs[j].type = "subscribe"
                                                  /\ msgs[j].sock = s}}

\* C1: in every reachable state every FeedClient instance has at most one
\* dispatcher of PriceFeedService registered for a feed identifier, whatever
\* subscribeToPair calls and unsubscribe-handle invocations were made.
C1_OneDispatcherPerId ==
  \A f \in FCs : \A id \in DOMAIN fcCallbacks[f] :
    Cardinality(DispatchersIn(fcCallbacks[f][id])) <= 1

\* two consumers of one pair share the one dispatcher of the current FeedClient
C1_Witness ==
  /\ op = "subscribe" /\ pfsClient # 0
  /\ "BTC/USD" \in DOMAIN subscriptions /\ Len(subscriptions["BTC/USD"]) = 2
  /\ Cardinality(DispatchersIn(ListenersOf(fcCallbacks, pfsClient, idOf("BTC/USD")))) = 1

\* C2: reference counting. After an unsubscribe handle was invoked while the
\* service is connected: if consumers of the pair remain, no upstream
\* unsubscribe was sent and the dispatcher of the pair is still registered; if
\* it was the last consumer, exactly one upstream unsubscribe was sent for the
\* identifier of the pair.
C2_ReferenceCounting ==
  (op = "unsubscribe" /\ pfsConnected) =>
    LET pair == stale[1]
        unsubs == Cardinality(SentFor(sent, "unsubscribe", idOf(pair)))
    IN IF pair \in DOMAIN subscriptions
       THEN /\ unsubs = 0
            /\ pair \in DOMAIN pfsCallbacks
            /\ \E f \in FCs :
                 pfsCallbacks[pair] \in Elems(ListenersOf(fcCallbacks, f, idOf(pair)))
       ELSE unsubs = 1

\* C3: fan-out. The dispatch of one tick invokes exactly the consumers that
\* were subscribed to a pair of the tick's identifier when the dispatch began,
\* each once and for that pair, and no consumer of another pair.
C3_FanOut ==
  [][op' = "tick" =>
       LET want == {e \in ConsumersOf(subscriptions) : idOf(e[1]) = tick'.id}
       IN /\ Len(ccalls') = Cardinality(want)
          /\ \A e \in want : \E k \in 1..Len(ccalls') :
               ccalls'[k].pair = e[1] /\ ccalls'[k].c = e[2]
          /\ \A k \in 1..Len(ccalls') : <<ccalls'[k].pair, ccalls'[k].c>> \in want]_vars

\* a tick went to the two consumers of its pair while the other pair has one
C3_Witness ==
  /\ op = "tick" /\ Len(ccalls) = 2 /\ ccalls[1].c # ccalls[2].c
  /\ Cardinality(DOMAIN subscriptions) = 2

\* C4: session cleanup. When a session with m subscribed pairs closes, its m
\* stored unsubscribe handles are all invoked and removed, the number of
\* consumers drops by exactly m, and no consumer of the session remains in a
\* consumer set.
C4_SessionCleanup ==
  [][op' = "disconnect" =>
       \A s \in Sessions : (sess[s] = "open" /\ sess'[s] = "closed") =>
         LET m == Len(subscribedPairs[s])
         IN /\ Cardinality({p \in AllPairNames : <<s, p>> \in unsubscribeFunctions}) = m
            /\ \A p \in AllPairNames : <<s, p>> \notin unsubscribeFunctions'
            /\ Cardinality(ConsumersOf(subscriptions'))
                 = Cardinality(ConsumersOf(subscriptions)) - m
            /\ \A e \in ConsumersOf(subscriptions') : e[2].sess # s]_vars

\* a session with two subscribed pairs has closed while another one is subscribed
C4_Witness ==
  /\ op = "disconnect"
  /\ \E s \in Sessions : sess[s] = "closed" /\ Len(subscribedPairs[s]) = 2
  /\ \E t \in Sessions : sess[t] = "open" /\ Len(subscribedPairs[t]) > 0
  /\ Cardinality(ConsumersOf(subscriptions)) = 1

\* C5: invoking an unsubscribe handle a second time changes no consumer set,
\* unregisters no dispatcher and sends no upstream message, whatever was
\* subscribed or unsubscribed in between.
C5_SecondUnsubscribeNoOp ==
  [][op' = "unsubscribeAgain" =>
       /\ subscriptions' = subscriptions
       /\ pfsCallbacks' = pfsCallbacks
       /\ fcCallbacks' = fcCallbacks
       /\ sent' = << >>]_vars

\* C6 as stated: the subscribe sent when a socket opens after a drop names
\* exactly the identifiers that had listeners when the socket dropped.
C6_ExactlyAtDisconnect ==
  \A f \in FCs :
    (op = "open" /\ hadListeners[f] # {} /\ isConnected(Cur, f)) =>
      SubscribedOn(sent, fcWs[f]) = hadListeners[f]

\* C6 amended: the subscribe sent when a socket opens after a drop names at
\* least the identifiers that had listeners when the socket dropped, the
\* upstream has them subscribed on the new socket, and neither the drop nor the
\* reconnection changes a listener array.
C6_AtLeastAtDisconnect ==
  /\ \A f \in FCs :
       (op = "open" /\ hadListeners[f] # {} /\ isConnected(Cur, f)) =>
         /\ hadListeners[f] \subseteq SubscribedOn(sent, fcWs[f])
         /\ hadListeners[f] \subseteq socks[fcWs[f]].subs
  /\ \A f \in FCs : \A id \in hadListeners[f] : id \in DOMAIN fcCallbacks[f]

\* a reconnection subscribed an identifier registered while disconnected too
C6_Witness ==
  /\ op = "open" /\ driver = "sdk" /\ isConnected(Cur, 1)
  /\ Cardinality(hadListeners[1]) = 1
  /\ Cardinality(SubscribedOn(sent, fcWs[1])) = 2
  /\ \A id \in hadListeners[1] : Len(fcCallbacks[1][id]) > 0

\* C7: at most one upstream socket is open or connecting at any time.
C7_OneSocket == Cardinality(LiveSocks(Cur)) <= 1

\* C8: a consumer receives a tick at most once.
C8_AtMostOnce == \A c \in BagToSet(got) : CopiesIn(c, got) <= 1

\* C9: during the dispatch of a tick a listener is not invoked after another
\* listener has removed it, and every listener that is registered before and
\* after the dispatch is invoked.
C9_SafeRemoval ==
  [][op' = "tick" =>
       \A s \in tick.pending \ tick'.pending :
         LET f == socks[s].owner
             before == ListenersOf(fcCallbacks, f, tick'.id)
             after == ListenersOf(fcCallbacks', f, tick'.id)
         IN /\ \A l \in Elems(before) \cap Elems(after) :
                 \E k \in 1..Len(lcalls') : lcalls'[k].l = l
            /\ \A j \in 1..Len(lcalls') : \A k \in (j + 1)..Len(lcalls') :
                 (lcalls'[j].did.do = "unreg" /\ lcalls'[j].did.target = lcalls'[k].l
                  /\ lcalls'[j].l # lcalls'[k].l)
                   => lcalls'[k].l \in Elems(after)]_vars

\* C10: fault isolation. In the dispatch of a tick in which a listener or a
\* consumer throws (and none removes a listener or unsubscribes), every
\* listener of the identifier and every consumer of a dispatched pair is
\* invoked, and the listener arrays, the consumer sets, the sockets and the
\* connection state are as before the dispatch.
C10_FaultIsolation ==
  [][(/\ op' = "tick"
      /\ \/ \E k \in 1..Len(lcalls') : lcalls'[k].did.do = "throw"
         \/ \E k \in 1..Len(ccalls') : ccalls'[k].did = "throw"
      /\ \A k \in 1..Len(lcalls') : lcalls'[k].did.do # "unreg"
      /\ \A k \in 1..Len(ccalls') : ccalls'[k].did # "unsub")
     => /\ \A s \in tick.pending \ tick'.pending :
             [k \in 1..Len(lcalls') |-> lcalls'[k].l]
               = ListenersOf(fcCallbacks, socks[s].owner, tick'.id)
        /\ \A k \in 1..Len(lcalls') :
             (lcalls'[k].l.kind = "disp" /\ lcalls'[k].l.pair \in DOMAIN subscriptions) =>
               \A c \in Elems(subscriptions[lcalls'[k].l.pair]) :
                 \E j \in 1..Len(ccalls') : ccalls'[j].c = c
        /\ fcCallbacks' = fcCallbacks /\ subscriptions' = subscriptions
        /\ pfsCallbacks' = pfsCallbacks
        /\ socks' = socks /\ fcWs' = fcWs /\ fcLive' = fcLive
        /\ pfsConnected' = pfsConnected /\ running' = running
        /\ sent' = << >>]_vars

\* the first of two listeners threw and the second was invoked
C10_Witness ==
  /\ op = "tick" /\ Len(lcalls) = 2
  /\ lcalls[1].did.do = "throw" /\ lcalls[2].did.do = "ok" /\ lcalls[1].l # lcalls[2].l

\* C11: after close() no upstream connection is opened unless the caller
\* connects again: the close event of a socket on which close() was called
\* schedules no timer, and while ws is undefined only an explicit
\* listenForPriceUpdates() or initialize() call creates a socket.
C11_NoReconnectAfterClose ==
  [][/\ op' = "closed" => Len(timers') <= Len(timers)
     /\ \A f \in FCs : (fcLive[f] /\ fcWs[f] = 0 /\ fcWs'[f] > 0)
                          => op' \in {"listen", "initialize"}]_vars

\* C12: after PriceFeedService.close() the consumer map and the dispatcher map
\* are empty and the listener map of its FeedClient has no identifiers.
C12_CloseClearsBookkeeping ==
  op = "serviceClose" =>
    /\ subscriptions = EmptyMap
    /\ pfsCallbacks = EmptyMap
    /\ fcCallbacks[pfsClient] = EmptyMap

\* C13: when the socket of a FeedClient whose reconnect attempts are exhausted
\* closes, no further connection attempt is scheduled and the process keeps
\* running.
C13_PersistentDisconnected ==
  [][\A s \in Socks :
       (/\ socks[s].state # "FREE" /\ socks'[s].state = "FREE"
        /\ fcAttempts[socks[s].owner] = maxReconnectAttempts)
         => /\ Len(timers') <= Len(timers)
            /\ running']_vars

\* the timers that a step has set: the entry of its close event, if any
Scheduled(before, after) ==
  IF Len(after) > Len(before) THEN {after[Len(after)]} ELSE {}

\* C14: the n-th consecutive reconnect attempt is scheduled base * 2^(n-1) ms
\* after the close, which is at most base * 2^(max-1); every scheduled attempt
\* counts, the count never exceeds the maximum, and only an opening socket
\* resets it.
C14_Backoff ==
  [][/\ \A t \in Scheduled(timers, timers') :
          t.rec > 0 =>
            /\ fcAttempts[t.f] < maxReconnectAttempts
            /\ fcAttempts'[t.f] = fcAttempts[t.f] + 1
            /\ t.rec = reconnectDelay * 2^(fcAttempts'[t.f] - 1)
            /\ t.rec <= reconnectDelay * 2^(maxReconnectAttempts - 1)
     /\ \A f \in FCs :
          /\ fcAttempts'[f] <= maxReconnectAttempts
          /\ fcAttempts'[f] > fcAttempts[f] =>
               \E t \in Scheduled(timers, timers') : t.f = f /\ t.rec > 0
          /\ (fcLive[f] /\ fcLive'[f] /\ fcAttempts'[f] < fcAttempts[f]) => op' = "open"]_vars

\* the fifth consecutive attempt has been scheduled
C14_Witness ==
  /\ op \in {"connectFailed", "drop", "closed"}
  /\ \E i \in 1..Len(timers) :
       /\ timers[i].rec = reconnectDelay * 2^(maxReconnectAttempts - 1)
       /\ fcAttempts[timers[i].f] = maxReconnectAttempts

\* C15: no listener array holds the same listener reference twice.
C15_NoDuplicateListener ==
  \A f \in FCs : \A id \in DOMAIN fcCallbacks[f] :
    \A i, j \in 1..Len(fcCallbacks[f][id]) :
      i # j => fcCallbacks[f][id][i] # fcCallbacks[f][id][j]

\* C16: a registration made while the socket is not open sends no upstream
\* message, and an open handler subscribes no identifier that the upstream
\* has already subscribed on that socket.
C16_NoDuplicateSubscribe ==
  [][/\ (op' = "register" /\ ~isConnected(Cur, 1)) => sent' = << >>
     /\ op' = "open" =>
          \A k \in 1..Len(sent') :
            sent'[k].type = "subscribe" => sent'[k].ids \cap socks[sent'[k].sock].subs = {}]_vars

\* C17: no identifier is mapped to an empty listener array.
C17_NoEmptyListenerSet ==
  \A f \in FCs : \A id \in DOMAIN fcCallbacks[f] : Len(fcCallbacks[f][id]) > 0

\* C18: listenForPriceUpdates() called while the socket of the FeedClient is
\* connecting or open creates no socket and sends no message.
C18_ConnectIdempotent ==
  [][(/\ op' = "listen" /\ fcWs[1] > 0
      /\ socks[fcWs[1]].state \in {"CONNECTING", "OPEN"})
       => socks' = socks /\ sent' = << >>]_vars

\* C19: when the handshake of the initial connect fails, no timer is set.
C19_NoRetryAfterInitialFailure ==
  [][(/\ op' = "connectFailed"
      /\ \E s \in Socks : /\ socks[s].state = "CONNECTING" /\ socks[s].awaited = "start"
                           /\ socks'[s].state = "FREE")
       => timers' = timers]_vars

\* what a subscribe message of session s for a pair not yet subscribed does
\* when subscribeToPair returns
Subscribes(s, pair) ==
  /\ <<pair, SessCb(s, pair)>> \notin ConsumersOf(subscriptions)
  /\ ConsumersOf(subscriptions') = ConsumersOf(subscriptions) \cup {<<pair, SessCb(s, pair)>>}
  /\ unsubscribeFunctions' = unsubscribeFunctions \cup {<<s, pair>>}
  /\ <<s, pair>> \notin unsubscribeFunctions
  /\ subscribedPairs' = [subscribedPairs EXCEPT ![s] = Append(@, pair)]
  /\ out' = <<[to |-> s, type |-> "subscribed", pair |-> pair, code |-> "-"]>>

\* a client message that changes neither the session nor the Multiplexer
SessionUnchanged ==
  /\ subscriptions' = subscriptions /\ pfsCallbacks' = pfsCallbacks
  /\ fcCallbacks' = fcCallbacks /\ sent' = << >>
  /\ unsubscribeFunctions' = unsubscribeFunctions
  /\ subscribedPairs' = subscribedPairs

\* C20 as stated: a subscribe message for a pair of the subscribed set is a
\* no-op, and for any other pair it adds one consumer, stores the handle, adds
\* the pair and emits one subscribed message.
C20_SubscribeAsStated ==
  [][op' = "sessSubscribe" =>
       IF req'[2] \in Elems(subscribedPairs[req'[1]])
       THEN SessionUnchanged /\ out' = << >>
       ELSE Subscribes(req'[1], req'[2])]_vars

\* C20 amended: as stated for a supported pair while the service is connected;
\* for an unsupported pair, or while the upstream connection is down, one error
\* message is emitted and nothing changes.
C20_SubscribeSupported ==
  [][op' = "sessSubscribe" =>
       LET s == req'[1]
           pair == req'[2]
       IN IF pair \in Elems(subscribedPairs[s])
          THEN SessionUnchanged /\ out' = << >>
          ELSE IF isPairSupported(pair) /\ pfsClient # 0 /\ pfsConnected
          THEN Subscribes(s, pair)
          ELSE /\ SessionUnchanged
               /\ Len(out') = 1 /\ out'[1].to = s /\ out'[1].type = "error"]_vars

\* a session subscribed to a pair that another session has subscribed
C20_Witness ==
  /\ op = "sessSubscribe" /\ Len(out) = 1 /\ out[1].type = "subscribed"
  /\ Len(subscriptions[req[2]]) = 2
  /\ Len(subscribedPairs[req[1]]) = 2

\* what an unsubscribe message of session s for a subscribed pair does
Unsubscribes(s, pair) ==
  /\ <<s, pair>> \in unsubscribeFunctions
  /\ <<pair, SessCb(s, pair)>> \in ConsumersOf(subscriptions)
  /\ ConsumersOf(subscriptions') = ConsumersOf(subscriptions) \ {<<pair, SessCb(s, pair)>>}
  /\ unsubscribeFunctions' = unsubscribeFunctions \ {<<s, pair>>}
  /\ pair \notin Elems(subscribedPairs'[s])
  /\ \A q \in AllPairNames \ {pair} :
       q \in Elems(subscribedPairs'[s]) <=> q \in Elems(subscribedPairs[s])
  /\ \A t \in Sessions \ {s} : subscribedPairs'[t] = subscribedPairs[t]
  /\ out' = <<[to |-> s, type |-> "unsubscribed", pair |-> pair, code |-> "-"]>>

\* C21: an unsubscribe message for a pair that is not in the subscribed set of
\* the session is a no-op; for a subscribed pair the stored handle is invoked
\* (the consumer of the session leaves the consumer set of the pair), the
\* handle and the pair are removed and one unsubscribed message is emitted.
C21_Unsubscribe ==
  [][op' = "sessUnsubscribe" =>
       IF req'[2] \notin Elems(subscribedPairs[req'[1]])
       THEN SessionUnchanged /\ out' = << >>
       ELSE Unsubscribes(req'[1], req'[2])]_vars

\* a session unsubscribed from a pair that another session keeps subscribed
C21_Witness ==
  /\ op = "sessUnsubscribe" /\ Len(out) = 1 /\ out[1].type = "unsubscribed"
  /\ req[2] \in DOMAIN subscriptions /\ Len(subscriptions[req[2]]) = 1
  /\ Len(subscribedPairs[req[1]]) = 1

\* C22: a get_price message and the end of its HTTP request change neither
\* the subscribed sets, the stored handles, the consumer sets, the dispatchers
\* nor the listener arrays and send nothing upstream; for a supported pair the
\* request is made whether or not the pair has consumers, and its end sends
\* one message to the session that asked.
C22_GetPriceFrame ==
  [][/\ op' \in {"sessGetPrice", "fetchDone"} => SessionUnchanged /\ sess' = sess
     /\ (op' = "sessGetPrice" /\ isPairSupported(req'[2])) =>
          fetches' = Append(fetches, req') /\ out' = << >>
     /\ op' = "fetchDone" =>
          /\ Len(fetches') = Len(fetches) - 1
          /\ (sess[req'[1]] = "open") =>
               /\ Len(out') = 1 /\ out'[1].to = req'[1] /\ out'[1].pair = req'[2]
               /\ out'[1].type \in {"price_update", "error"}]_vars

\* a price was read for a pair without consumers while another pair has one
C22_Witness ==
  /\ op = "fetchDone" /\ Len(out) = 1 /\ out[1].type = "price_update"
  /\ req[2] \notin DOMAIN subscriptions /\ DOMAIN subscriptions # {}
  /\ Len(subscribedPairs[req[1]]) = 1

\* C23: a client message that is not JSON, has an unknown type or has no
\* non-empty pair is answered with exactly one error message that carries a
\* code; the session stays open and nothing else changes.
C23_BadMessage ==
  [][op' = "badMessage" =>
       /\ Len(out') = 1 /\ out'[1].to = req'[1]
       /\ out'[1].type = "error" /\ out'[1].code # "-"
       /\ sess' = sess /\ sess'[req'[1]] = "open"
       /\ SessionUnchanged /\ fetches' = fetches]_vars

\* a subscribed session sent a message that fails validation
C23_Witness ==
  /\ op = "badMessage" /\ Len(out) = 1 /\ out[1].code = "INVALID_MESSAGE"
  /\ Len(subscribedPairs[req[1]]) > 0

\* C24: a subscribe or get_price message for a pair the registry does not have
\* is answered with one error message; the session stays open and neither a
\* subscribed set nor a consumer set changes.
C24_UnknownInstrument ==
  [][(op' \in {"sessSubscribe", "sessGetPrice"} /\ req'[2] \notin Pairs) =>
       /\ Len(out') = 1 /\ out'[1].to = req'[1] /\ out'[1].type = "error"
       /\ sess' = sess /\ sess'[req'[1]] = "open"
       /\ subscribedPairs' = subscribedPairs /\ subscriptions' = subscriptions
       /\ fetches' = fetches]_vars

\* a subscribed session asked for the price of an unknown pair
C24_Witness ==
  /\ op = "sessGetPrice" /\ req[2] \notin Pairs
  /\ Len(out) = 1 /\ out[1].code = "UNSUPPORTED_PAIR"
  /\ Len(subscribedPairs[req[1]]) > 0

\* C25: the close of an upstream socket (a failed handshake or a drop) closes
\* no session, sends nothing to a client and leaves the process running, and a
\* subscribe message for a supported pair that arrives while the service is
\* not connected is answered with one error message, the session staying open.
C25_UpstreamFailureNotDownstream ==
  [][/\ (op' \in {"connectFailed", "drop", "closed"}
         /\ \E s \in Sessions : sess[s] = "open") =>
          running' /\ sess' = sess /\ out' = << >>
     /\ (/\ op' = "sessSubscribe" /\ ~PriceFeedService_isConnected(Cur)
         /\ isPairSupported(req'[2]) /\ req'[2] \notin Elems(subscribedPairs[req'[1]])) =>
          /\ Len(out') = 1 /\ out'[1].to = req'[1] /\ out'[1].type = "error"
          /\ sess' = sess]_vars

\* the listeners that the last step invoked, in order
Invoked(calls) == [k \in 1..Len(calls) |-> calls[k].l]

\* C26: an upstream message that does not parse, is not a price update, or is
\* a price update that fails validation invokes no listener and changes no
\* listener array, socket, timer or attempt counter; a well-formed tick, after
\* it or not, goes to every listener of its identifier.
C26_MalformedDropped ==
  [][/\ op' = "dropped" =>
          /\ lcalls' = << >> /\ ccalls' = << >> /\ sent' = << >>
          /\ fcCallbacks' = fcCallbacks /\ socks' = socks /\ fcWs' = fcWs
          /\ timers' = timers /\ fcAttempts' = fcAttempts /\ running' = running
     /\ (op' = "tick" /\ \A k \in 1..Len(lcalls') : lcalls'[k].did.do # "unreg") =>
          Invoked(lcalls') = ListenersOf(fcCallbacks, socks[recv'.sock].owner,
                                         normalizeFeedId(recv'.msg.id))]_vars

\* a price update that fails validation arrived for an identifier with listeners
C26_Witness ==
  /\ op = "dropped" /\ recv.msg.feed = "invalid"
  /\ Len(ListenersOf(fcCallbacks, 1, normalizeFeedId(recv.msg.id))) = 2

\* C27: normalizing a normalized identifier string changes nothing.
C27_Idempotent == Len(nf) = 3 => nf[3] = nf[2]

\* an upper-case identifier with an upper-case marker was normalized twice
C27_Witness ==
  /\ Len(nf) = 3 /\ nf[1] = <<"0", "X", "E", "6">> /\ nf[2] = <<"e", "6">>

\* two characters that differ at most by case
SameChar(a, b) == a = b \/ {a, b} \in {{"a", "A"}, {"e", "E"}, {"f", "F"}}

\* the identifier strings that differ from id only by case or the marker
SpellingsOf(id) ==
  {m \o b : m \in Markers,
            b \in {c \in [1..Len(id) -> HexChars] : \A i \in 1..Len(id) : SameChar(c[i], id[i])}}

\* lower-case and without the marker
Canonical(id) ==
  /\ \A i \in 1..Len(id) : id[i] \notin {"A", "E", "F", "X"}
  /\ ~(Len(id) >= 2 /\ id[1] = "0" /\ id[2] = "x")

\* C28: every key of a listener map is lower-case without the marker, and a
\* registration, an unregistration and a tick under any spelling of an
\* identifier act on the listener array of its canonical key.
C28_CanonicalKeys ==
  /\ \A f \in FCs : \A id \in DOMAIN fcCallbacks[f] : Canonical(id)
  /\ \A id \in Ids : \A r \in SpellingsOf(id) : \A l \in DirectListeners :
       /\ registerPriceFeedCallback(Cur, 1, r, l).fcCallbacks[1]
            = MapSet(fcCallbacks[1], id, Append(ListenersOf(fcCallbacks, 1, id), l))
       /\ unregisterPriceFeedCallback(Cur, 1, r, l).fcCallbacks
            = unregisterPriceFeedCallback(Cur, 1, id, l).fcCallbacks
       /\ Invoked(handlePriceUpdate(Cur, 1, UpMsg(r), NoBeh).lcalls)
            = ListenersOf(fcCallbacks, 1, id)

\* a tick spelled with marker and upper case went to the two listeners of the
\* canonical key
C28_Witness ==
  /\ op = "tick" /\ recv.msg.id = <<"0", "x", "E", "6">>
  /\ Len(lcalls) = 2 /\ lcalls[1].l # lcalls[2].l
  /\ DOMAIN fcCallbacks[1] = {<<"e", "6">>}

\* C29: a registration puts the listener behind the ones registered before;
\* the listeners that a message invokes are listeners of its identifier, in
\* the order of the array, all of them when none is removed meanwhile; and
\* the dispatch is one step: the next message is handled after it.
C29_DispatchOrder ==
  [][/\ op' = "register" =>
          \E c \in SdkCalls :
            fcCallbacks'[1] = MapSet(fcCallbacks[1], normalizeFeedId(c[1]),
                                     Append(ListenersOf(fcCallbacks, 1, normalizeFeedId(c[1])),
                                            c[2]))
     /\ op' = "tick" =>
          LET before == ListenersOf(fcCallbacks, socks[recv'.sock].owner,
                                    normalizeFeedId(recv'.msg.id))
          IN /\ \E pos \in [1..Len(lcalls') -> 1..Len(before)] :
                  /\ \A k \in 1..Len(lcalls') : before[pos[k]] = lcalls'[k].l
                  /\ \A j, k \in 1..Len(lcalls') : j < k => pos[j] < pos[k]
             /\ (\A k \in 1..Len(lcalls') : lcalls'[k].did.do # "unreg") =>
                  Len(lcalls') = Len(before)]_vars

\* a tick went to two listeners in the order of their registration
C29_Witness ==
  /\ op = "tick" /\ Len(lcalls) = 2
  /\ lcalls[1].l = Direct(2) /\ lcalls[2].l = Direct(1)
  /\ ListenersOf(fcCallbacks, 1, normalizeFeedId(recv.msg.id)) = <<Direct(2), Direct(1)>>

\* the price_update messages of a pair that the last step sent to a session
UpdatesTo(msgs, s, pair) ==
  {k \in 1..Len(msgs) : msgs[k].to = s /\ msgs[k].type = "price_update"
                         /\ msgs[k].pair = pair}

\* C30: when a tick has been handled on every socket it arrived on, every
\* open session that is subscribed to a pair of its identifier was sent exactly
\* one price_update for it, and a session that is not subscribed (it never
\* was, or it has unsubscribed) was sent none.
C30_EndToEnd ==
  (op = "tick" /\ tick.pending = {}) =>
    \A s \in Sessions : \A pair \in Pairs :
      (sess[s] = "open" /\ idOf(pair) = tick.id) =>
        /\ CopiesIn(SessCb(s, pair), got)
             = (IF pair \in Elems(subscribedPairs[s]) THEN 1 ELSE 0)
        /\ Cardinality(UpdatesTo(out, s, pair)) <= 1

\* C31: a get_price request whose HTTP request is in flight eventually ends,
\* with a price or with an error.
C31_SnapshotTerminates == (Len(fetches) > 0) ~> (Len(fetches) = 0)

\* C32: a subscribeToPair call with a callback that is already a consumer of
\* the pair changes no map and sends nothing upstream, no consumer set holds
\* a callback twice, and a tick invokes a consumer at most once for each
\* invocation of a dispatcher of its pair.
C32_SetSemantics ==
  [][/\ op' = "subscribeAgain" =>
          /\ subscriptions' = subscriptions /\ pfsCallbacks' = pfsCallbacks
          /\ \A f \in FCs : fcCallbacks'[f] = fcCallbacks[f]
          /\ sent' = << >>
     /\ \A p \in DOMAIN subscriptions' :
          Cardinality(Elems(subscriptions'[p])) = Len(subscriptions'[p])
     /\ op' = "tick" =>
          \A e \in ConsumersOf(subscriptions) :
            Cardinality({k \in 1..Len(ccalls') :
                           ccalls'[k].pair = e[1] /\ ccalls'[k].c = e[2]})
              <= Cardinality({k \in 1..Len(lcalls') :
                                lcalls'[k].l.kind = "disp" /\ lcalls'[k].l.pair = e[1]})]_vars

\* a callback was subscribed again to a pair of which it is the only consumer
C32_Witness ==
  /\ op = "subscribeAgain"
  /\ \E p \in DOMAIN subscriptions : Len(subscriptions[p]) = 1

\* C33: the open handler of a socket sets the attempt counter of its
\* FeedClient to 0, and when an open socket drops, the reconnect that is
\* scheduled is the first attempt, at the base delay.
C33_FullBudgetAfterConnect ==
  [][/\ op' = "open" =>
          \A s \in Socks :
            (socks[s].state = "CONNECTING" /\ socks'[s].state = "OPEN") =>
              fcAttempts'[socks[s].owner] = 0
     /\ op' = "drop" =>
          \A s \in Socks :
            (socks[s].state = "OPEN" /\ socks'[s].state = "FREE") =>
              /\ fcAttempts'[socks[s].owner] = 1
              /\ \E t \in Scheduled(timers, timers') :
                   t.f = socks[s].owner /\ t.rec = reconnectDelay]_vars

\* C34: when the handle of the last consumer of a pair has been invoked, no
\* FeedClient has a dispatcher of the pair in a listener array.
C34_NoDispatcherOutlives ==
  (op = "unsubscribe" /\ stale[1] \notin DOMAIN subscriptions) =>
    \A f \in FCs : \A id \in DOMAIN fcCallbacks[f] :
      \A k \in 1..Len(fcCallbacks[f][id]) :
        ~(fcLive[f] /\ fcCallbacks[f][id][k].kind = "disp"
                    /\ fcCallbacks[f][id][k].pair = stale[1])

\* C35: a handle that is invoked again after its callback was subscribed to
\* its pair again removes no consumer, unregisters no dispatcher and sends
\* nothing upstream.
C35_HandleOwnsItsSubscription ==
  [][(op' = "unsubscribeAgain" /\ stale \in ConsumersOf(subscriptions)) =>
       /\ stale \in ConsumersOf(subscriptions')
       /\ pfsCallbacks' = pfsCallbacks
       /\ \A f \in FCs : fcCallbacks'[f] = fcCallbacks[f]
       /\ sent' = << >>]_vars

\* C36: a pair is a key of the consumer map exactly if it is a key of the
\* dispatcher map, and no consumer set is empty.
C36_MapsAgree ==
  /\ DOMAIN subscriptions = DOMAIN pfsCallbacks
  /\ \A p \in DOMAIN subscriptions : Len(subscriptions[p]) > 0

\* a pair has two consumers after the service was used through a drop
C36_Witness ==
  /\ op = "subscribe" /\ closes > 0
  /\ \E p \in DOMAIN subscriptions : Len(subscriptions[p]) = 2

\* C39: a subscribeToPair call that throws changes neither the consumer map,
\* the dispatcher map nor a listener map and sends nothing upstream.
C39_ThrowsBeforeMutating ==
  [][op' = "subscribeThrew" =>
       /\ subscriptions' = subscriptions /\ pfsCallbacks' = pfsCallbacks
       /\ \A f \in FCs : fcLive'[f] => fcCallbacks'[f] = fcCallbacks[f]
       /\ sent' = << >>]_vars

\* a call threw while the service was disconnected and had a consumer
C39_Witness ==
  /\ op = "subscribeThrew" /\ pfsClient # 0 /\ ~pfsConnected
  /\ DOMAIN subscriptions # {}

\* C37: an unsubscribe handle is stored under (session, pair) exactly if the
\* session is connected and the pair is in its subscribed set.
C37_HandlesMatchSessions ==
  \A s \in Sessions : \A p \in AllPairNames :
    <<s, p>> \in unsubscribeFunctions
      <=> (sess[s] = "open" /\ p \in Elems(subscribedPairs[s]))

\* a session with a subscribed pair has closed while another session holds a handle
C37_Witness ==
  /\ op = "disconnect"
  /\ \E s \in Sessions : sess[s] = "closed" /\ Len(subscribedPairs[s]) > 0
  /\ unsubscribeFunctions # {}

\* C38: a streamed price_update for a pair is sent to a session only while
\* the pair is in its subscribed set; the pair leaves the set in the step
\* that sends unsubscribed and enters it only in a step that sends subscribed;
\* every message is sent to a session that is open, none to a closed one.
C38_NothingAfterUnsubscribed ==
  [][/\ \A k \in 1..Len(out') :
          /\ sess[out'[k].to] # "closed" /\ sess'[out'[k].to] = "open"
          /\ (op' = "tick" /\ out'[k].type = "price_update") =>
               out'[k].pair \in Elems(subscribedPairs[out'[k].to])
          /\ out'[k].type = "unsubscribed" =>
               out'[k].pair \notin Elems(subscribedPairs'[out'[k].to])
     /\ \A s \in Sessions :
          \A p \in Elems(subscribedPairs'[s]) \ Elems(subscribedPairs[s]) :
            \E k \in 1..Len(out') :
              out'[k].to = s /\ out'[k].type = "subscribed" /\ out'[k].pair = p]_vars

\* a tick of a pair is streamed to a session after another session that was
\* subscribed to the pair has closed
C38_Witness ==
  /\ op = "tick" /\ Len(out) = 1 /\ out[1].type = "price_update"
  /\ \E s \in Sessions :
       /\ s # out[1].to /\ sess[s] = "closed"
       /\ out[1].pair \in Elems(subscribedPairs[s])

\* C40: a session is sent connected in the step that accepts it, once and
\* in no other step, and it is sent nothing else before it is accepted.
C40_ConnectedFirst ==
  [][\A s \in Sessions :
       LET toS == {k \in 1..Len(out') : out'[k].to = s}
           welcome == {k \in toS : out'[k].type = "connected"}
       IN /\ (sess[s] = "new" /\ sess'[s] = "open") => Cardinality(welcome) = 1
          /\ ~(sess[s] = "new" /\ sess'[s] = "open") => welcome = {}
          /\ sess[s] = "new" => toS = welcome
          /\ sess[s] # "new" => sess'[s] # "new"]_vars

\* a session is accepted while another one has a subscribed pair
C40_Witness ==
  /\ op = "connect" /\ Len(out) = 1 /\ out[1].type = "connected"
  /\ \E t \in Sessions : t # out[1].to /\ Len(subscribedPairs[t]) > 0

=============================================================================
